---- MODULE Spec2Model ----
(***************************************************************************)
(* Task Management API (FastAPI + SQLModel): the task table and the five   *)
(* request handlers of main.py, with the request models of models.py and   *)
(* the engine of database.py.                                              *)
(*                                                                         *)
(* The handlers are `async def` functions that call the synchronous        *)
(* Session API and never await: inside one server process a handler runs   *)
(* from its first statement to its return before the event loop starts the *)
(* next one.  Spec therefore takes one step per request.                   *)
(*                                                                         *)
(* Several server processes on one database do interleave, each request    *)
(* in its own Session: SpecConc takes one step for what a handler does up  *)
(* to its commit and one for the commit.                                   *)
(*                                                                         *)
(* The storage engine is whatever settings.database_url names (config.py   *)
(* gives it no default).  Two things the handlers leave to the engine are  *)
(* modelled per dialect: the value of a primary key inserted as NULL, and  *)
(* the order of a SELECT that has no ORDER BY.                             *)
(***************************************************************************)
EXTENDS Integers, Sequences, FiniteSets, TLC

VARIABLES
    dialect,    \* the engine behind settings.database_url
    rows,       \* table "task": the rows, in the order a full scan yields them
    seq,        \* postgresql: last value of the serial sequence of task.id
    clock,      \* the system clock read by datetime.now(timezone.utc)
    nwrites,    \* number of POST, PUT and DELETE requests handled so far
    resp,       \* the response of the request being served, NoResponse when idle
    inserted,   \* history: ids of the live rows, oldest insert first
    deleted,    \* history: ids a delete_task has removed
    just_deleted, \* history: the id the request before this one deleted, if it did
    sess        \* SpecConc: per worker process, the Session of its request

vars == <<dialect, rows, seq, clock, nwrites, resp, inserted, deleted, just_deleted, sess>>

store == <<rows, seq>>

(***************************************************************************)
(* Bounds of the model.                                                    *)
(***************************************************************************)
MaxWrites == 3
MaxId == 2
MaxClock == 1

(***************************************************************************)
(* Values.                                                                 *)
(***************************************************************************)
\* Python's None; no string used as an input below equals it.
None == "<None>"

Dialects == {"sqlite", "postgresql"}

HTTP_200_OK == 200
HTTP_201_CREATED == 201
HTTP_204_NO_CONTENT == 204
HTTP_400_BAD_REQUEST == 400
HTTP_404_NOT_FOUND == 404
HTTP_422_UNPROCESSABLE == 422
HTTP_500_INTERNAL == 500

TitleMinLength == 1
TitleMaxLength == 200
DescriptionMaxLength == 1000

\* valid_statuses, as written in list_tasks and again in update_task
valid_statuses == {"pending", "in_progress", "completed"}

DefaultStatus == "pending"

\* the ids a client may put in the path: 0 is never a primary key
TaskIds == 0 .. MaxId

CreateTitleInputs == {"", "t1"}
UpdateTitleInputs == {"", "t2"}
DescriptionInputs == {"d1"}
StatusInputs == {"in_progress", "completed", "invalid_status"}
FilterInputs == valid_statuses \cup {"invalid_status", ""}

(***************************************************************************)
(* Request bodies.  A body is a function from the keys the client sent to  *)
(* their values: a key that is absent is unset, a key sent as null maps to *)
(* None.                                                                   *)
(***************************************************************************)
UpdateFieldInputs(k) ==
    CASE k = "title" -> UpdateTitleInputs \cup {None}
      [] k = "description" -> DescriptionInputs \cup {None}
      [] k = "status" -> StatusInputs \cup {None}

CreateFieldInputs(k) ==
    CASE k = "title" -> CreateTitleInputs
      [] k = "description" -> DescriptionInputs

AllInputs ==
    CreateTitleInputs \cup UpdateTitleInputs \cup DescriptionInputs
        \cup StatusInputs \cup {None}

CreateBodies ==
    UNION {{p \in [K -> AllInputs] : \A k \in K : p[k] \in CreateFieldInputs(k)} :
              K \in SUBSET {"title", "description"}}

UpdateBodies ==
    UNION {{p \in [K -> AllInputs] : \A k \in K : p[k] \in UpdateFieldInputs(k)} :
              K \in SUBSET {"title", "description", "status"}}

NoBody == [k \in {} |-> None]

\* Field(min_length=1, max_length=200)
TitleOk(v) == Len(v) >= TitleMinLength /\ Len(v) <= TitleMaxLength

\* Field(max_length=1000)
DescriptionOk(v) == Len(v) <= DescriptionMaxLength

\* TaskCreate: title is required and a str, description is Optional
TaskCreateValid(p) ==
    /\ "title" \in DOMAIN p
    /\ p["title"] # None
    /\ TitleOk(p["title"])
    /\ "description" \in DOMAIN p /\ p["description"] # None
          => DescriptionOk(p["description"])

\* TaskUpdate: every field Optional; None passes, a str is constrained
TaskUpdateValid(p) ==
    /\ "title" \in DOMAIN p /\ p["title"] # None => TitleOk(p["title"])
    /\ "description" \in DOMAIN p /\ p["description"] # None
          => DescriptionOk(p["description"])

UpdateFields == {"title", "description", "status"}

\* mutant of model_dump_exclude_unset: model_dump(), every field of TaskUpdate,
\* the unset ones with their default None
model_dump_all(p) == [k \in UpdateFields |-> IF k \in DOMAIN p THEN p[k] ELSE None]

\* task_update.model_dump(exclude_unset=True): the keys sent, with their values
model_dump_exclude_unset(p) == p

\* truth value of a `str | None` in an `if`
Truthy(v) == v # None /\ Len(v) > 0

(***************************************************************************)
(* The table.                                                              *)
(***************************************************************************)
Ids(rs) == {rs[i].id : i \in 1 .. Len(rs)}

Max(S) == CHOOSE m \in S : \A n \in S : n <= m

\* mutant of RowIndex: a miss indexes the table with -1, Python's last element
RowIndexLastOnMiss(rs, id) ==
    IF \E i \in 1 .. Len(rs) : rs[i].id = id
    THEN CHOOSE i \in 1 .. Len(rs) : rs[i].id = id
    ELSE Len(rs)

\* session.get(Task, id)
\* index of the row whose primary key is id, 0 when there is none
RowIndex(rs, id) ==
    IF \E i \in 1 .. Len(rs) : rs[i].id = id
    THEN CHOOSE i \in 1 .. Len(rs) : rs[i].id = id
    ELSE 0

\* id denotes a live task
Live(id) == id \in Ids(rows)

Remove(rs, i) == SubSeq(rs, 1, i - 1) \o SubSeq(rs, i + 1, Len(rs))

\* mutant of NextRowId: the largest key in use, not one more than it
NextRowIdNoIncrement ==
    IF dialect = "sqlite"
    THEN (IF rows = <<>> THEN 1 ELSE Max(Ids(rows)))
    ELSE (IF seq = 0 THEN 1 ELSE seq)

\* The primary key the engine gives a row inserted with id NULL.
\*   sqlite: "id INTEGER NOT NULL, PRIMARY KEY (id)" is the rowid, and without
\*     AUTOINCREMENT a new rowid is one more than the largest rowid in the table.
\*   postgresql: "id SERIAL", the next value of a sequence.
NextRowId ==
    IF dialect = "sqlite"
    THEN (IF rows = <<>> THEN 1 ELSE Max(Ids(rows)) + 1)
    ELSE seq + 1

\* INSERT INTO task ... ; COMMIT
Insert(task) ==
    /\ rows' = Append(rows, [task EXCEPT !.id = NextRowId])
    /\ seq' = IF dialect = "postgresql" THEN seq + 1 ELSE seq

\* UPDATE task SET ... WHERE id = ? ; COMMIT
\*   sqlite rewrites the row under its rowid; postgresql writes a new row
\*   version behind the rows of the heap, which is where a scan then finds it.
WriteRow(i, task) ==
    /\ rows' = IF dialect = "postgresql"
               THEN Append(Remove(rows, i), task)
               ELSE [rows EXCEPT ![i] = task]
    /\ seq' = seq

\* mutant of DeleteRow: session.delete(task) without the commit
DeleteRowNoCommit(i) ==
    /\ rows' = rows
    /\ seq' = seq

\* DELETE FROM task WHERE id = ? ; COMMIT
DeleteRow(i) ==
    /\ rows' = Remove(rows, i)
    /\ seq' = seq

\* select(Task) [.where(Task.status == s)], no ORDER BY: the scan order
StatusIs(s, r) == r.status = s

SelectAll == rows

SelectWhereStatus(s) ==
    LET Keep(r) == StatusIs(s, r) IN SelectSeq(rows, Keep)

(***************************************************************************)
(* Responses.                                                              *)
(***************************************************************************)
\* the handler that ran (op, task_id) and what the client got back (code, and
\* in body the task or tasks of the response)
Response(op, id, code, body) ==
    [op |-> op, task_id |-> id, code |-> code, body |-> body]

NoResponse == Response("", 0, 0, <<>>)

\* the server processes (uvicorn workers) that share the database
Workers == {"w1", "w2"}

\* no Task object
NoTask ==
    [id |-> 0, title |-> None, description |-> None, status |-> None,
     created_at |-> 0, updated_at |-> 0]

\* A Session: pc says what its commit will flush ("insert", "update", "delete"),
\* loaded is the row session.get read, task the object as the handler left it,
\* code the status of the response once the handler has returned ("done").
Session(pc, id, loaded, task, code) ==
    [pc |-> pc, task_id |-> id, loaded |-> loaded, task |-> task, code |-> code]

NoSession == Session("idle", 0, NoTask, NoTask, 0)

\* the event loop starts a handler when the one before it has returned
Idle == resp = NoResponse

\* a GET request is answered
Read(r) ==
    /\ resp' = r
    /\ nwrites' = nwrites

\* a POST, PUT or DELETE request is answered
Written(r) ==
    /\ nwrites < MaxWrites
    /\ resp' = r
    /\ nwrites' = nwrites + 1

TypeOK ==
    /\ dialect \in Dialects
    /\ seq \in 0 .. MaxId
    /\ clock \in 0 .. MaxClock
    /\ nwrites \in 0 .. MaxWrites

Init ==
    /\ dialect \in Dialects
    /\ rows = <<>>
    /\ seq = 0
    /\ clock = 0
    /\ nwrites = 0
    /\ resp = NoResponse
    /\ inserted = <<>>
    /\ deleted = {}
    /\ just_deleted = {}
    /\ sess = [w \in Workers |-> NoSession]

\* time passes between two requests
Tick ==
    /\ Idle
    /\ clock < MaxClock
    /\ clock' = clock + 1
    /\ UNCHANGED <<dialect, rows, seq, nwrites, resp, inserted, deleted, just_deleted, sess>>

\* get_session: the response is sent and the `with Session(engine)` block is left
CloseSession ==
    /\ ~Idle
    /\ resp' = NoResponse
    /\ just_deleted' = IF resp.op = "delete_task" /\ resp.code = HTTP_204_NO_CONTENT
                       THEN {resp.task_id}
                       ELSE {}
    /\ UNCHANGED <<dialect, rows, seq, clock, nwrites, inserted, deleted, sess>>

(***************************************************************************)
(* The handlers of main.py.                                                *)
(***************************************************************************)
\* Task(title=..., description=...): id None until the insert, status by its
\* default, created_at and updated_at each by its own call of the
\* default_factory get_current_time, the first reading c1, the second c2.
NewTask(title, description, c1, c2) ==
    [id |-> 0, title |-> title, description |-> description,
     status |-> DefaultStatus, created_at |-> c1, updated_at |-> c2]

\* task_data.description: the value sent, None by default
DescriptionOf(p) == IF "description" \in DOMAIN p THEN p["description"] ELSE None

\* POST /tasks
create_task(p) ==
    /\ Idle
    /\ IF ~TaskCreateValid(p)
       THEN /\ Written(Response("create_task", 0, HTTP_422_UNPROCESSABLE, <<>>))
            /\ UNCHANGED <<rows, seq, clock, inserted>>
       ELSE \E d \in 0 .. 1 :
            /\ NextRowId <= MaxId
            /\ clock + d <= MaxClock
            /\ clock' = clock + d
            /\ Insert(NewTask(p["title"], DescriptionOf(p), clock, clock + d))
            /\ inserted' = Append(inserted, NextRowId)
            /\ Written(Response("create_task", NextRowId, HTTP_201_CREATED,
                                <<rows'[RowIndex(rows', NextRowId)]>>))
    /\ UNCHANGED <<dialect, deleted, just_deleted, sess>>

\* GET /tasks?status_filter=...
list_tasks(status_filter) ==
    /\ Idle
    /\ IF Truthy(status_filter)
       THEN IF status_filter \notin valid_statuses
            THEN Read(Response("list_tasks", 0, HTTP_400_BAD_REQUEST, <<>>))
            ELSE Read(Response("list_tasks", 0, HTTP_200_OK, SelectWhereStatus(status_filter)))
       ELSE Read(Response("list_tasks", 0, HTTP_200_OK, SelectAll))
    /\ UNCHANGED <<dialect, rows, seq, clock, inserted, deleted, just_deleted, sess>>

\* GET /tasks/{task_id}
get_task(task_id) ==
    /\ Idle
    /\ LET i == RowIndex(rows, task_id) IN
       IF i = 0
       THEN Read(Response("get_task", task_id, HTTP_404_NOT_FOUND, <<>>))
       ELSE Read(Response("get_task", task_id, HTTP_200_OK, <<rows[i]>>))
    /\ UNCHANGED <<dialect, rows, seq, clock, inserted, deleted, just_deleted, sess>>

\* for key, value in update_data.items(): setattr(task, key, value)
SetAttrs(task, update_data) ==
    [k \in DOMAIN task |-> IF k \in DOMAIN update_data THEN update_data[k] ELSE task[k]]

\* mutant of Touch: the reading is stored in the other timestamp
TouchCreatedAt(task, now) == [task EXCEPT !.created_at = now]

\* task.updated_at = datetime.now(timezone.utc)
Touch(task, now) == [task EXCEPT !.updated_at = now]

\* the columns of Task declared without Optional are NOT NULL
NotNullOk(task) ==
    /\ task.title # None
    /\ task.status # None

\* mutant of StatusRejected: the handler without its status validation
StatusNeverRejected(update_data) == FALSE

\* "status" in update_data and update_data["status"] not in valid_statuses
StatusRejected(update_data) ==
    /\ "status" \in DOMAIN update_data
    /\ update_data["status"] \notin valid_statuses

\* PUT /tasks/{task_id}
update_task(task_id, p) ==
    /\ Idle
    /\ LET i == RowIndex(rows, task_id)
           update_data == model_dump_exclude_unset(p)
           task == Touch(SetAttrs(rows[i], update_data), clock)
       IN  IF ~TaskUpdateValid(p)
           THEN /\ Written(Response("update_task", task_id, HTTP_422_UNPROCESSABLE, <<>>))
                /\ UNCHANGED store
           ELSE IF i = 0
           THEN /\ Written(Response("update_task", task_id, HTTP_404_NOT_FOUND, <<>>))
                /\ UNCHANGED store
           ELSE IF StatusRejected(update_data)
           THEN /\ Written(Response("update_task", task_id, HTTP_400_BAD_REQUEST, <<>>))
                /\ UNCHANGED store
           ELSE IF ~NotNullOk(task)
           THEN \* commit raises IntegrityError, the session rolls back
                /\ Written(Response("update_task", task_id, HTTP_500_INTERNAL, <<>>))
                /\ UNCHANGED store
           ELSE /\ WriteRow(i, task)
                /\ Written(Response("update_task", task_id, HTTP_200_OK,
                                    <<rows'[RowIndex(rows', task_id)]>>))
    /\ UNCHANGED <<dialect, clock, inserted, deleted, just_deleted, sess>>

\* DELETE /tasks/{task_id}
delete_task(task_id) ==
    /\ Idle
    /\ LET i == RowIndex(rows, task_id) IN
       IF i = 0
       THEN /\ Written(Response("delete_task", task_id, HTTP_404_NOT_FOUND, <<>>))
            /\ UNCHANGED <<rows, seq, inserted, deleted>>
       ELSE /\ DeleteRow(i)
            /\ inserted' = SelectSeq(inserted, LAMBDA x : x # task_id)
            /\ deleted' = deleted \cup {task_id}
            /\ Written(Response("delete_task", task_id, HTTP_204_NO_CONTENT, <<>>))
    /\ UNCHANGED <<dialect, clock, just_deleted, sess>>

CreateTask == \E p \in CreateBodies : create_task(p)
ListTasks == \E f \in FilterInputs \cup {None} : list_tasks(f)
GetTask == \E id \in TaskIds : get_task(id)
UpdateTask == \E id \in TaskIds : \E p \in UpdateBodies : update_task(id, p)
DeleteTask == \E id \in TaskIds : delete_task(id)

Next ==
    \/ Tick
    \/ CreateTask
    \/ ListTasks
    \/ GetTask
    \/ UpdateTask
    \/ DeleteTask
    \/ CloseSession

Spec == Init /\ [][Next]_vars

(***************************************************************************)
(* Several worker processes on one database: each request has its own      *)
(* Session, and what a handler does before session.commit() and the commit *)
(* itself are two steps, between which the other workers take theirs.      *)
(***************************************************************************)
ConcCreateBodies == {[title |-> "t1"]}

ConcUpdateBodies ==
    {[title |-> "t2"], [title |-> None], [status |-> "completed"],
     [status |-> "invalid_status"]}

Free(w) == sess[w].pc = "idle"

\* create_task up to session.add(task)
ConcCreate(w, p) ==
    /\ Free(w)
    /\ nwrites < MaxWrites
    /\ TaskCreateValid(p)
    /\ \E d \in 0 .. 1 :
          /\ clock + d <= MaxClock
          /\ clock' = clock + d
          /\ sess' = [sess EXCEPT ![w] =
                Session("insert", 0, NoTask,
                        NewTask(p["title"], DescriptionOf(p), clock, clock + d), 0)]
    /\ nwrites' = nwrites + 1
    /\ UNCHANGED <<dialect, rows, seq, resp, inserted, deleted, just_deleted>>

\* create_task from session.commit() on
ConcCreateCommit(w) ==
    /\ sess[w].pc = "insert"
    /\ NextRowId <= MaxId
    /\ Insert(sess[w].task)
    /\ inserted' = Append(inserted, NextRowId)
    /\ sess' = [sess EXCEPT ![w] =
          Session("done", NextRowId, NoTask, rows'[RowIndex(rows', NextRowId)],
                  HTTP_201_CREATED)]
    /\ UNCHANGED <<dialect, clock, nwrites, resp, deleted, just_deleted>>

\* update_task up to session.add(task)
ConcUpdate(w, task_id, p) ==
    /\ Free(w)
    /\ nwrites < MaxWrites
    /\ TaskUpdateValid(p)
    /\ LET i == RowIndex(rows, task_id)
           update_data == model_dump_exclude_unset(p)
       IN  sess' = [sess EXCEPT ![w] =
             IF i = 0
             THEN Session("done", task_id, NoTask, NoTask, HTTP_404_NOT_FOUND)
             ELSE IF StatusRejected(update_data)
             THEN Session("done", task_id, NoTask, NoTask, HTTP_400_BAD_REQUEST)
             ELSE Session("update", task_id, rows[i],
                          Touch(SetAttrs(rows[i], update_data), clock), 0)]
    /\ nwrites' = nwrites + 1
    /\ UNCHANGED <<dialect, rows, seq, clock, resp, inserted, deleted, just_deleted>>

\* the UPDATE the unit of work emits sets the columns the handler changed
Flush(current, loaded, task) ==
    [k \in DOMAIN current |-> IF task[k] # loaded[k] THEN task[k] ELSE current[k]]

\* update_task from session.commit() on
ConcUpdateCommit(w) ==
    /\ sess[w].pc = "update"
    /\ LET i == RowIndex(rows, sess[w].task_id) IN
       IF i = 0 \/ ~NotNullOk(sess[w].task)
       THEN \* StaleDataError (the UPDATE matched no row) or IntegrityError
            /\ sess' = [sess EXCEPT ![w] =
                  Session("done", sess[w].task_id, NoTask, NoTask, HTTP_500_INTERNAL)]
            /\ UNCHANGED store
       ELSE /\ WriteRow(i, Flush(rows[i], sess[w].loaded, sess[w].task))
            /\ sess' = [sess EXCEPT ![w] =
                  Session("done", sess[w].task_id, NoTask,
                          rows'[RowIndex(rows', sess[w].task_id)], HTTP_200_OK)]
    /\ UNCHANGED <<dialect, clock, nwrites, resp, inserted, deleted, just_deleted>>

\* delete_task up to session.delete(task)
ConcDelete(w, task_id) ==
    /\ Free(w)
    /\ nwrites < MaxWrites
    /\ LET i == RowIndex(rows, task_id) IN
       sess' = [sess EXCEPT ![w] =
         IF i = 0
         THEN Session("done", task_id, NoTask, NoTask, HTTP_404_NOT_FOUND)
         ELSE Session("delete", task_id, rows[i], rows[i], 0)]
    /\ nwrites' = nwrites + 1
    /\ UNCHANGED <<dialect, rows, seq, clock, resp, inserted, deleted, just_deleted>>

\* delete_task from session.commit() on
ConcDeleteCommit(w) ==
    /\ sess[w].pc = "delete"
    /\ LET i == RowIndex(rows, sess[w].task_id) IN
       IF i = 0
       THEN \* the DELETE matched no row: the unit of work only warns
            UNCHANGED <<rows, seq, inserted, deleted>>
       ELSE /\ DeleteRow(i)
            /\ inserted' = SelectSeq(inserted, LAMBDA x : x # sess[w].task_id)
            /\ deleted' = deleted \cup {sess[w].task_id}
    /\ sess' = [sess EXCEPT ![w] =
          Session("done", sess[w].task_id, NoTask, NoTask, HTTP_204_NO_CONTENT)]
    /\ UNCHANGED <<dialect, clock, nwrites, resp, just_deleted>>

\* get_session: the response is sent and the Session closed
ConcClose(w) ==
    /\ sess[w].pc = "done"
    /\ sess' = [sess EXCEPT ![w] = NoSession]
    /\ UNCHANGED <<dialect, rows, seq, clock, nwrites, resp, inserted, deleted,
                   just_deleted>>

NextConc ==
    \/ Tick
    \/ \E w \in Workers : \E p \in ConcCreateBodies : ConcCreate(w, p)
    \/ \E w \in Workers : ConcCreateCommit(w)
    \/ \E w \in Workers : \E id \in TaskIds : \E p \in ConcUpdateBodies :
          ConcUpdate(w, id, p)
    \/ \E w \in Workers : ConcUpdateCommit(w)
    \/ \E w \in Workers : \E id \in TaskIds : ConcDelete(w, id)
    \/ \E w \in Workers : ConcDeleteCommit(w)
    \/ \E w \in Workers : ConcClose(w)

SpecConc == Init /\ [][NextConc]_vars

(***************************************************************************)
(* Properties.                                                             *)
(***************************************************************************)
\* the row of the live task id
Row(rs, id) == rs[CHOOSE i \in 1 .. Len(rs) : rs[i].id = id]

\* the request bodies that pass TaskUpdate, so that update_task is called
ValidUpdateBodies == {p \in UpdateBodies : TaskUpdateValid(p)}

StoreUnchanged == rows' = rows /\ seq' = seq

\* C1: in every state that create_task, update_task and delete_task reach,
\* run by several workers whose steps interleave, no two rows of the task table
\* have the same id.
C1_UniqueLiveIds ==
    \A i, j \in 1 .. Len(rows) : i # j => rows[i].id # rows[j].id

\* two creates in flight together: the one whose Task was built later has
\* committed, the other has not yet
C1_Witness ==
    \E w, v \in Workers :
        /\ sess[w].pc = "insert"
        /\ sess[v].pc = "done" /\ sess[v].code = HTTP_201_CREATED
        /\ sess[v].task.created_at > sess[w].task.created_at
        /\ rows # <<>>

\* C2: the request that follows a successful delete_task(id), when it is
\* get_task(id) or delete_task(id), is answered 404.
C2_DeleteIsFinal ==
    resp.op \in {"get_task", "delete_task"} /\ resp.task_id \in just_deleted
        => resp.code = HTTP_404_NOT_FOUND

C2_Witness ==
    /\ resp.op = "delete_task" /\ resp.task_id \in just_deleted
    /\ resp.code = HTTP_404_NOT_FOUND

\* the id in the path of the request a step answers (its handler, when it
\* answers, puts it in resp)
Answered == {resp'.task_id} \cap TaskIds

\* C3: get_task, update_task and delete_task on an id that has no row are
\* answered 404 and leave the table as it was.
C3_NotFoundLeavesStore ==
    [][\A id \in Answered :
          /\ ~Live(id)
          /\ \/ get_task(id)
             \/ delete_task(id)
             \/ /\ resp'.op = "update_task"
                /\ \E p \in ValidUpdateBodies : update_task(id, p)
          => resp'.code = HTTP_404_NOT_FOUND /\ StoreUnchanged]_vars

C3_Witness ==
    /\ resp.op = "update_task" /\ resp.code = HTTP_404_NOT_FOUND
    /\ ~Live(resp.task_id)
    /\ rows # <<>>

\* C4: a successful update_task(id, p) gives the task the values of the keys of
\* p, keeps its id, its created_at and every field among title, description and
\* status that is not a key of p, and leaves every other task as it was.
C4_MergeUpdate ==
    [][\A id \in Answered :
          resp'.op = "update_task" /\ resp'.code = HTTP_200_OK =>
          \A p \in ValidUpdateBodies :
              update_task(id, p) =>
                  /\ Ids(rows') = Ids(rows) /\ Len(rows') = Len(rows)
                  /\ Row(rows', id).id = id
                  /\ Row(rows', id).created_at = Row(rows, id).created_at
                  /\ \A k \in UpdateFields :
                         Row(rows', id)[k] = IF k \in DOMAIN p THEN p[k]
                                             ELSE Row(rows, id)[k]
                  /\ \A other \in Ids(rows) \ {id} :
                         Row(rows', other) = Row(rows, other)]_vars

C4_Witness ==
    /\ resp.op = "update_task" /\ resp.code = HTTP_200_OK
    /\ Len(rows) = 2
    /\ Row(rows, resp.task_id).title = "t2"
    /\ Row(rows, resp.task_id).description = "d1"
    /\ Row(rows, resp.task_id).status = DefaultStatus

\* C5 as stated: a successful update_task leaves the task's updated_at strictly
\* greater than it was, and its created_at as it was.
C5_StrictlyLater ==
    [][\A id \in Answered :
          /\ resp'.op = "update_task" /\ resp'.code = HTTP_200_OK
          /\ \E p \in ValidUpdateBodies : update_task(id, p)
          => /\ Row(rows', id).updated_at > Row(rows, id).updated_at
             /\ Row(rows', id).created_at = Row(rows, id).created_at]_vars

\* C5 as amended: a successful update_task sets the task's updated_at to the
\* clock reading of the call, which is not less than it was (and equal to it
\* when the clock has not advanced since), and leaves its created_at as it was.
C5_NotEarlier ==
    [][\A id \in Answered :
          /\ resp'.op = "update_task" /\ resp'.code = HTTP_200_OK
          /\ \E p \in ValidUpdateBodies : update_task(id, p)
          => /\ Row(rows', id).updated_at = clock
             /\ Row(rows', id).updated_at >= Row(rows, id).updated_at
             /\ Row(rows', id).created_at = Row(rows, id).created_at]_vars

\* an update answered 200 whose task still has updated_at = created_at
C5_Witness ==
    /\ resp.op = "update_task" /\ resp.code = HTTP_200_OK
    /\ Row(rows, resp.task_id).title = "t2"
    /\ Row(rows, resp.task_id).updated_at = Row(rows, resp.task_id).created_at

\* the ids of the tasks of a response, in the order of the response
BodyIds(body) == [i \in 1 .. Len(body) |-> body[i].id]

\* the live ids, oldest insert first, of the tasks a filter asks for
InInsertionOrder(f) ==
    LET Asked(id) == f = None \/ Row(rows, id).status = f
    IN  SelectSeq(inserted, Asked)

\* C6 as stated: list_tasks with a valid status_filter s answers exactly the
\* live tasks whose status is s, oldest insert first; without status_filter it
\* answers all live tasks, oldest insert first.
C6_ListInInsertionOrder ==
    [][\A f \in valid_statuses \cup {None} :
          list_tasks(f) =>
              /\ resp'.code = HTTP_200_OK
              /\ BodyIds(resp'.body) = InInsertionOrder(f)
              /\ \A i \in 1 .. Len(resp'.body) :
                     resp'.body[i] = Row(rows, resp'.body[i].id)]_vars

\* C7 as stated: list_tasks with a status_filter that is given and is not one
\* of the three statuses is answered 400, with no task list.
C7_BadFilterRejected ==
    [][\A f \in FilterInputs \ valid_statuses :
          list_tasks(f) =>
              resp'.code = HTTP_400_BAD_REQUEST /\ resp'.body = <<>>]_vars

\* C8 as stated: update_task with a status that is not one of the three
\* statuses is answered 400 and changes nothing, whether task_id is live or not.
C8_BadStatusRejected ==
    [][\A id \in Answered :
          resp'.op = "update_task" =>
          \A p \in ValidUpdateBodies :
              StatusRejected(p) /\ update_task(id, p) =>
                  resp'.code = HTTP_400_BAD_REQUEST /\ StoreUnchanged]_vars

\* C9 as stated: an id that delete_task has removed is never live again.
C9_DeletedNeverLiveAgain == \A id \in deleted : ~Live(id)

\* C10 as stated: the task create_task answers with, which is the task it
\* stored, has created_at = updated_at and status pending.
C10_CreatedEqualsUpdated ==
    resp.op = "create_task" /\ resp.code = HTTP_201_CREATED =>
        /\ resp.body[1] = Row(rows, resp.task_id)
        /\ resp.body[1].status = "pending"
        /\ resp.body[1].created_at = resp.body[1].updated_at

\* C11: in every state that create_task, update_task and delete_task reach,
\* with any request bodies, a status of null among them, the status of every
\* row of the task table is one of pending, in_progress, completed.
C11_StatusInEnum == \A i \in 1 .. Len(rows) : rows[i].status \in valid_statuses

\* update_task has refused a status for a live task after an earlier update_task
\* changed the status of a task
C11_Witness ==
    /\ resp.op = "update_task"
    /\ resp.code = HTTP_400_BAD_REQUEST
    /\ Live(resp.task_id)
    /\ Row(rows, resp.task_id).status # DefaultStatus

\* C12 as stated: when update_task and delete_task on one live id overlap, each
\* in its own Session, the commit of the update either finds the row and
\* writes every column the handler changed (200), or finds it deleted, answers
\* 404 and leaves the table as it is with the id not live; no other error is
\* answered.
C12_UpdateDeleteSerial ==
    [][\A w \in Workers :
          /\ sess[w].pc = "update"
          /\ sess'[w].pc = "done"
          /\ NotNullOk(sess[w].task)
          => IF Live(sess[w].task_id)
             THEN /\ sess'[w].code = HTTP_200_OK
                  /\ \A k \in DOMAIN sess[w].task :
                        sess[w].task[k] # sess[w].loaded[k]
                            => Row(rows', sess[w].task_id)[k] = sess[w].task[k]
             ELSE /\ sess'[w].code = HTTP_404_NOT_FOUND
                  /\ StoreUnchanged
                  /\ sess[w].task_id \notin Ids(rows')]_vars

====
